---- MODULE Spec2Model ----
(***************************************************************************)
(* A model of agentic-devtools: the command-line session loop              *)
(* (src/src/main.py), the orchestrator graph (src/src/agent/agent.py) and  *)
(* the tools it dispatches to (src/src/agent/tools.py, src/src/utils).     *)
(*                                                                         *)
(* The graph runtime, the tool node, the model, the search API, the file   *)
(* loader and the vector store are libraries and services outside the      *)
(* repository.  They appear here by their interface: what a call returns   *)
(* or raises is chosen nondeterministically among the outcomes the         *)
(* interface allows.                                                       *)
(***************************************************************************)
EXTENDS Integers, Sequences, FiniteSets, TLC

VARIABLES
    \* ---- src/src/main.py ----
    cli,        \* position of main(): "read", "invoke" or "exited"
    history,    \* main's local list `history`
    printed,    \* the kind of the last thing main printed
    exc,        \* the exception named in the error line when that is what main printed last
    turns,      \* number of user texts submitted so far
    user_text,  \* main's local `user_text`: what _read_user_input returned last (<<>>: None)
    caught,     \* the exception that ended the last wait for input or the session: "", "EOFError", "KeyboardInterrupt"
    \* ---- src/src/agent/agent.py ----
    node,       \* the graph node to run next: "none", "orchestrator", "tools", "END"
    messages,   \* state["messages"] of the running invocation
    steps,      \* supersteps the running invocation has taken
    catchAll,   \* whether the installed ToolNode turns every tool fault into a ToolMessage
    \* ---- src/src/agent/tools.py: run_tests ----
    rtPc,       \* position of run_tests: "idle", "created", "written", "returned", "raised"
    tmp_path,   \* name of the temporary file of the running call (0: none made)
    files,      \* names of the temporary files that exist
    rtCalls,    \* number of run_tests calls started
    rtRun,      \* the runner's run: whether subprocess.run returned, returncode, stdout, stderr
    rtResult,   \* what the last call returned
    \* ---- src/src/agent/tools.py, src/src/utils/vector_store_singleton.py ----
    _vector_store,  \* the global of tools.py: 0 (None) or the instance it holds
    vector_store,   \* the global of vector_store_singleton.py: -1 while unbound
    constructions,  \* number of CodeVectorStore() constructions run so far
    accPc,      \* per caller: position inside the accessor
    accFn,      \* per caller: the accessor it is in, "tools" or "utils"
    accLocal,   \* per caller: the instance its constructor call made
    accGot,     \* per caller: the instance the accessor returned (0: none)
    accUses,    \* per caller: number of accessor calls started
    \* ---- src/src/agent/tools.py: index_github_repositories,
    \*      src/src/utils/github_searcher.py: GitHubSearcher ----
    token,      \* config.environment.GITHUB_ACCESS_TOKEN: "None", "" or "tok"
    chroma,     \* the chunks the vector store's collection holds, in the order added
    ixPc,       \* position of the call: "idle", "search", "loop", "returned", "raised"
    ixImpl,     \* the implementation called: "tools" or "searcher"
    max_repos,  \* the argument max_repos as passed
    per_page,   \* the per_page of the search request sent (0: none sent)
    netCalls,   \* network requests the running call has made
    searched,   \* how the search step of the running call ended: "", "ok", "empty", "fault"
    repos,      \* the repositories the search returned
    ixI,        \* index into repos of the repository to process next
    summary_lines,  \* the list summary_lines
    ixResult,   \* the lines of the string the call returned
    chromaAtCall,   \* the collection as it was when the running call began
    storeAtCall,    \* _vector_store as it was when the running call began
    ixCalls,    \* number of calls started
    \* ---- src/src/agent/tools.py: refactor,
    \*      src/src/utils/code_refactorer.py: CodeRefactorer ----
    rfPc,       \* position of the call: "idle", "rag", "chain", "returned", "raised"
    rfImpl,     \* the implementation called: "tools" or "refactorer"
    code,       \* the argument code
    instructions,   \* the argument instructions ("": none)
    rfRag,      \* how the retrieval step ended: "", "ok", "init", "query"
    docs,       \* the chunks the retriever returned, most similar first
    rfPrompt,   \* the mapping passed to the refactor chain
    rfModel,    \* what the refactor model did: "" (not called yet), its output, or "fault"
    rfResult,   \* what the call returned
    rfCalls,    \* number of calls started
    \* ---- src/src/agent/tools.py: lint, src/src/utils/ruff_parser.py ----
    lintPc,     \* position of the call: "idle", "waiting", "returned", "raised"
    lintRun,    \* the linter's run: whether subprocess.run returned, and result.stdout
    violations, \* the violations of the AnalysisResult the call returned
    lintExc,    \* the exception the call raised ("": none)
    lintCalls,  \* number of calls started
    \* ---- src/src/agent/tools.py: format_code ----
    fmtPc,      \* position of the call: "idle", "waiting", "returned", "raised"
    fmtRun,     \* the formatter's run: whether subprocess.run returned, returncode, stdout
    fmtResult,  \* what the call returned
    fmtLog,     \* the calls that returned so far: the formatter's exit status and the result
    fmtCalls    \* number of calls started

agentVars == <<cli, history, printed, exc, turns, user_text, caught, node, messages, steps, catchAll>>
testVars == <<rtPc, tmp_path, files, rtCalls, rtRun, rtResult>>
storeVars == <<_vector_store, vector_store, constructions, accPc, accFn, accLocal, accGot, accUses>>

indexVars == <<token, chroma, ixPc, ixImpl, max_repos, per_page, netCalls, searched, repos, ixI,
               summary_lines, ixResult, chromaAtCall, storeAtCall, ixCalls>>

refactorVars == <<rfPc, rfImpl, code, instructions, rfRag, docs, rfPrompt, rfModel, rfResult, rfCalls>>

lintVars == <<lintPc, lintRun, violations, lintExc, lintCalls>>

formatVars == <<fmtPc, fmtRun, fmtResult, fmtLog, fmtCalls>>

execVars == <<lintVars, formatVars>>

vars == <<agentVars, testVars, storeVars, indexVars, refactorVars, execVars>>

----------------------------------------------------------------------------
\* Bounds of the model.

\* Number of user texts one session submits.
MaxTurns == 2
\* Supersteps one invocation of the graph may take before the runtime raises
\* its recursion error.  The runtime's default is larger; the value only
\* sets how long a turn the model explores.
RecursionLimit == 3

\* Number of run_tests calls one process makes.
MaxRuns == 3

\* Number of times one caller asks for the vector store.
MaxUses == 2

\* Number of index calls one process makes.
MaxIndexCalls == 1
\* Number of repositories that match a search query.
MaxMatch == 6

\* Number of lint calls one process makes.
MaxLints == 2

\* Number of format_code calls one process makes.
MaxFormats == 2

\* Number of refactor calls one process makes.
MaxRefactors == 2

\* Number of ToolCalls an assistant message may carry.
CallCounts == 0..2

----------------------------------------------------------------------------
\* Text.  A line typed by the user is a string; a text is the sequence of its
\* lines (the lines joined by "\n").  What the user types for one prompt is a
\* script: the lines input() returns, after which input() raises EOFError.

Scripts ==
    { <<"hi", "">>, <<"hi", "Quit", "">>, <<" ", "hi", "">>,
      <<"quit", "">>, <<"", "Exit", "">>, <<"hi", "quit">>,
      <<"", "">>, <<" ", "">>, <<>> }

\* str.isspace() or empty: what str.strip() removes at either end.
IsBlank(l) == l \in {"", " "}

\* str.lower() on one line.
Lower(l) ==
    CASE l = "Quit" -> "quit"
      [] l = "Exit" -> "exit"
      [] OTHER -> l

RECURSIVE DropLeadingBlank(_)
DropLeadingBlank(s) ==
    IF s = <<>> THEN <<>>
    ELSE IF IsBlank(Head(s)) THEN DropLeadingBlank(Tail(s))
    ELSE s

RECURSIVE DropTrailingBlank(_)
DropTrailingBlank(s) ==
    IF s = <<>> THEN <<>>
    ELSE IF IsBlank(s[Len(s)]) THEN DropTrailingBlank(SubSeq(s, 1, Len(s) - 1))
    ELSE s

\* str.strip()
Strip(s) == DropTrailingBlank(DropLeadingBlank(s))

\* "\n".join(lines).strip(): the empty text is <<>>.
JoinStrip(ls) == Strip(ls)

\* The loop of _read_user_input from the i-th line of the script on, with
\* `acc` the list `lines`.  None is <<>>: the function returns None for the
\* empty text and on EOFError.
RECURSIVE ReadLoop(_, _, _)
ReadLoop(script, i, acc) ==
    IF i > Len(script) THEN <<>>
    ELSE IF script[i] = "" /\ acc # <<>> THEN JoinStrip(acc)
    ELSE ReadLoop(script, i + 1, Append(acc, script[i]))

_read_user_input(script) == ReadLoop(script, 1, <<>>)

\* Whether input() raises EOFError in that loop: the script runs out before
\* a blank line ends a non-empty list of lines.
RECURSIVE EOFLoop(_, _, _)
EOFLoop(script, i, acc) ==
    IF i > Len(script) THEN TRUE
    ELSE IF script[i] = "" /\ acc # <<>> THEN FALSE
    ELSE EOFLoop(script, i + 1, Append(acc, script[i]))

RaisesEOF(script) == EOFLoop(script, 1, <<>>)

\* user_text.lower() in ("quit", "exit")
IsQuit(text) == Len(text) = 1 /\ Lower(text[1]) \in {"quit", "exit"}

\* The content of a message: the user's text, or the text the model produced
\* in superstep s of turn t (gen = <<t, s>>).  No lines and no gen: the
\* empty string.
UserContent(text) == [lines |-> text, gen |-> <<>>]
ModelContent(t, s) == [lines |-> <<>>, gen |-> <<t, s>>]
EmptyContent == [lines |-> <<>>, gen |-> <<>>]

\* bool(msg.content)
Truthy(c) == c # EmptyContent

----------------------------------------------------------------------------
\* Messages of the graph state (langchain_core.messages).

HumanMessage(c) ==
    [type |-> "human", content |-> c, tool_calls |-> <<>>, tool_call_id |-> <<>>, status |-> ""]
AIMessage(c, calls) ==
    [type |-> "ai", content |-> c, tool_calls |-> calls, tool_call_id |-> <<>>, status |-> ""]
ToolMessage(c, callId, st) ==
    [type |-> "tool", content |-> c, tool_calls |-> <<>>, tool_call_id |-> callId, status |-> st]

\* The reducer of MessagesState turns the dicts main passes into messages.
Coerce(h) ==
    [i \in 1..Len(h) |->
        IF h[i].role = "user" THEN HumanMessage(h[i].content)
        ELSE AIMessage(h[i].content, <<>>)]

\* ---- src/src/agent/agent.py ----

\* A variant of _should_continue with the two branches swapped.
_should_continue_swapped(msgs) ==
    IF msgs[Len(msgs)].tool_calls # <<>> THEN "END" ELSE "tools"

\* _should_continue: the node after the orchestrator.
_should_continue(msgs) ==
    IF msgs[Len(msgs)].tool_calls # <<>> THEN "tools" ELSE "END"

\* The assistant message a model call returns: text or none, and n ToolCalls
\* with fresh correlation ids <<superstep, index>>.
ModelReply(hasText, n) ==
    AIMessage(IF hasText THEN ModelContent(turns, steps + 1) ELSE EmptyContent,
              [i \in 1..n |-> <<steps + 1, i>>])

\* What one tool call comes to: "ok" (the tool returned), "invalid" (unknown
\* name or arguments the schema rejects), "fault" (the tool raised).
Outcomes == {"ok", "invalid", "fault"}

\* A variant of the tool node that answers only the first ToolCall.
ToolNodeFirstOnly(calls, outcome) ==
    [i \in 1..(IF Len(calls) > 0 THEN 1 ELSE 0) |->
        ToolMessage([lines |-> <<outcome[i]>>, gen |-> <<>>], calls[i],
                    IF outcome[i] = "ok" THEN "success" ELSE "error")]

\* ToolNode(AGENT_TOOLS) on the ToolCalls of the latest assistant message:
\* one ToolMessage per call, carrying the call's id.
ToolNode(calls, outcome) ==
    [i \in 1..Len(calls) |->
        ToolMessage([lines |-> <<outcome[i]>>, gen |-> <<>>], calls[i],
                    IF outcome[i] = "ok" THEN "success" ELSE "error")]

\* A variant of the tool node whose handler lets the errors of validation
\* through as well.
ToolNodeRaisesInvalid(outcome) ==
    ~catchAll /\ \E i \in DOMAIN outcome : outcome[i] \in {"fault", "invalid"}

\* Whether the tool node re-raises: a tool raised and the installed handler
\* does not catch every exception.  An unknown name and arguments the
\* schema rejects are answered with an error ToolMessage by every handler.
ToolNodeRaises(outcome) ==
    ~catchAll /\ \E i \in DOMAIN outcome : outcome[i] = "fault"

\* The exception the tool node re-raises: the one a tool raised, else the
\* error of validation.
ExcOf(outcome) ==
    IF \E i \in DOMAIN outcome : outcome[i] = "fault"
    THEN "ToolException" ELSE "ValidationError"

\* ---- src/src/main.py ----

\* The loop at the end of main: every AIMessage of the result with content
\* is appended to history.
AppendAssistant(h, msgs) ==
    LET ai == SelectSeq(msgs, LAMBDA m : m.type = "ai" /\ Truthy(m.content))
    IN h \o [i \in 1..Len(ai) |-> [role |-> "assistant", content |-> ai[i].content]]

\* A step of the session or of the graph leaves the tools' own state alone.
AgentOnly == UNCHANGED <<testVars, storeVars, indexVars, refactorVars, execVars>>

\* A step inside a tool leaves the session and the graph alone.
ToolOnly == UNCHANGED agentVars

\* run_tests does not use the vector store.
TestsOnly == ToolOnly /\ UNCHANGED <<storeVars, indexVars, refactorVars, execVars>>

\* The accessors of the vector store do not touch run_tests' files.
StoreOnly == ToolOnly /\ UNCHANGED <<testVars, indexVars, refactorVars, execVars>>

\* Indexing leaves run_tests' files and the other callers of the accessors alone.
IndexOnly ==
    /\ ToolOnly
    /\ UNCHANGED <<testVars, refactorVars, execVars>>
    /\ UNCHANGED <<vector_store, accPc, accFn, accLocal, accGot, accUses>>

\* A variant of the handler that leaves the loop instead of continuing.
AgentErrorBreaks(e) ==
    /\ printed' = "error"
    /\ exc' = e
    /\ cli' = "exited"
    /\ node' = "none"
    /\ messages' = <<>>
    /\ steps' = 0
    /\ UNCHANGED <<history, turns, user_text, caught, catchAll>>
    /\ AgentOnly

\* except Exception as exc: print the labelled error and continue.
AgentError(e) ==
    /\ printed' = "error"
    /\ exc' = e
    /\ cli' = "read"
    /\ node' = "none"
    /\ messages' = <<>>
    /\ steps' = 0
    /\ UNCHANGED <<history, turns, user_text, caught, catchAll>>
    /\ AgentOnly

\* One iteration of main's loop up to agent.invoke: _read_user_input reads
\* the script; None, quit and exit end the session, any other text is
\* appended to history and the graph is entered at the orchestrator.
ReadInput(script) ==
    /\ cli = "read"
    /\ user_text' = _read_user_input(script)
    /\ caught' = IF RaisesEOF(script) THEN "EOFError" ELSE ""
    /\ IF user_text' = <<>> \/ IsQuit(user_text')
       THEN /\ cli' = "exited"
            /\ printed' = "bye"
            /\ exc' = ""
            /\ UNCHANGED <<history, turns, node, messages, steps>>
       ELSE /\ turns < MaxTurns
            /\ history' = Append(history, [role |-> "user", content |-> UserContent(user_text')])
            /\ turns' = turns + 1
            /\ cli' = "invoke"
            /\ node' = "orchestrator"
            /\ messages' = Coerce(history')
            /\ steps' = 0
            /\ UNCHANGED <<printed, exc>>
    /\ UNCHANGED catchAll
    /\ AgentOnly

\* KeyboardInterrupt while main waits for input or for the agent.
Interrupt ==
    /\ cli \in {"read", "invoke"}
    /\ cli' = "exited"
    /\ printed' = "bye"
    /\ exc' = ""
    /\ caught' = "KeyboardInterrupt"
    /\ node' = "none"
    /\ messages' = <<>>
    /\ steps' = 0
    /\ UNCHANGED <<history, turns, user_text, catchAll>>
    /\ AgentOnly

\* agent.invoke raises before the first node runs: the runtime rejects the
\* call.  The graph is compiled with a checkpointer and main passes no
\* config naming a thread to key the checkpoints by; the model keeps both
\* the rejected and the accepted call.
InvokeRejected ==
    /\ cli = "invoke" /\ node = "orchestrator" /\ steps = 0
    /\ AgentError("ValueError")

\* A variant of the runtime's check that lets two supersteps more through.
WithinLimitLate(s) == s < RecursionLimit + 2

\* The runtime runs a node only while the invocation has supersteps left.
WithinLimit(s) == s < RecursionLimit

\* The ToolCalls the tools node is about to run.
PendingCalls ==
    IF node = "tools" THEN messages[Len(messages)].tool_calls ELSE <<>>

\* The orchestrator node: one model call, its reply appended to the state.
Orchestrator(hasText, n) ==
    /\ cli = "invoke" /\ node = "orchestrator"
    /\ WithinLimit(steps)
    /\ messages' = Append(messages, ModelReply(hasText, n))
    /\ node' = _should_continue(messages')
    /\ steps' = steps + 1
    /\ UNCHANGED <<cli, history, printed, exc, turns, user_text, caught, catchAll>>
    /\ AgentOnly

\* The model call raises.
ModelFault ==
    /\ cli = "invoke" /\ node = "orchestrator"
    /\ WithinLimit(steps)
    /\ AgentError("ModelError")

\* The tools node: every ToolCall of the latest assistant message is run and
\* answered, then the edge leads back to the orchestrator.
Tools(outcome) ==
    /\ cli = "invoke" /\ node = "tools"
    /\ WithinLimit(steps)
    /\ ~ToolNodeRaises(outcome)
    /\ messages' = messages \o ToolNode(PendingCalls, outcome)
    /\ node' = "orchestrator"
    /\ steps' = steps + 1
    /\ UNCHANGED <<cli, history, printed, exc, turns, user_text, caught, catchAll>>
    /\ AgentOnly

\* A tool raised and the tool node re-raised it.
ToolFault(outcome) ==
    /\ cli = "invoke" /\ node = "tools"
    /\ WithinLimit(steps)
    /\ ToolNodeRaises(outcome)
    /\ AgentError(ExcOf(outcome))

\* The runtime's recursion limit: no superstep is left for the next node.
RecursionError ==
    /\ cli = "invoke" /\ node \in {"orchestrator", "tools"}
    /\ ~WithinLimit(steps)
    /\ AgentError("GraphRecursionError")

\* agent.invoke returned: main prints the response and extends history.
InvokeReturn ==
    /\ cli = "invoke" /\ node = "END"
    /\ history' = AppendAssistant(history, messages)
    /\ printed' = "response"
    /\ exc' = ""
    /\ cli' = "read"
    /\ node' = "none"
    /\ messages' = <<>>
    /\ steps' = 0
    /\ UNCHANGED <<turns, user_text, caught, catchAll>>
    /\ AgentOnly

OutcomesOf(calls) == [1..Len(calls) -> Outcomes]

InitAgent ==
    /\ cli = "read"
    /\ history = <<>>
    /\ printed = "banner"
    /\ exc = ""
    /\ turns = 0
    /\ user_text = <<>>
    /\ caught = ""
    /\ node = "none"
    /\ messages = <<>>
    /\ steps = 0
    /\ catchAll \in BOOLEAN

----------------------------------------------------------------------------
\* ---- src/src/agent/tools.py: run_tests ----

\* What the test runner writes to stdout and to stderr, character by character.
Outputs == { <<>>, <<"x">>, <<" ", "x", " ">> }

\* Exit codes of the test runner.
ReturnCodes == {0, 1, 5}

\* A variant of the result that takes the exit code of a run that collected
\* no test for a pass as well.
TestsResultLenient(returncode, stdout, stderr) ==
    [status |-> IF returncode \in {0, 5} THEN "PASSED" ELSE "FAILED",
     returncode |-> returncode,
     output |-> Strip(stdout \o stderr)]

\* The string run_tests returns, by its parts:
\* f"Tests {status} (exit code {returncode})\n\n{output}"
TestsResult(returncode, stdout, stderr) ==
    [status |-> IF returncode = 0 THEN "PASSED" ELSE "FAILED",
     returncode |-> returncode,
     output |-> Strip(stdout \o stderr)]

NoResult == [status |-> "", returncode |-> 0, output |-> <<>>]

\* The CompletedProcess of the runner; NoProcess while there is none.
NoProcess == [ran |-> FALSE, returncode |-> 0, stdout |-> <<>>, stderr |-> <<>>]
Process(rc, out, err) == [ran |-> TRUE, returncode |-> rc, stdout |-> out, stderr |-> err]

\* Whether run_tests removes its file when leaving from position pc: the
\* try/finally with os.unlink covers the runner only.
Unlinks(pc) == pc = "written"

\* The state after run_tests leaves from position pc, returning or raising.
Leave(pc, how, res) ==
    /\ rtPc' = how
    /\ files' = IF Unlinks(pc) THEN files \ {tmp_path} ELSE files
    /\ rtResult' = res
    /\ UNCHANGED <<tmp_path, rtCalls>>
    /\ TestsOnly

\* run_tests is called: NamedTemporaryFile(delete=False) makes a file with a
\* name no existing file has.
CreateTemp ==
    /\ rtPc \in {"idle", "returned", "raised"}
    /\ rtCalls < MaxRuns
    /\ rtCalls' = rtCalls + 1
    /\ tmp_path' = rtCalls + 1
    /\ files' = files \cup {rtCalls + 1}
    /\ rtPc' = "created"
    /\ rtRun' = NoProcess
    /\ rtResult' = NoResult
    /\ TestsOnly

\* NamedTemporaryFile raises: no file is made.
CreateFault ==
    /\ rtPc \in {"idle", "returned", "raised"}
    /\ rtCalls < MaxRuns
    /\ rtCalls' = rtCalls + 1
    /\ tmp_path' = 0
    /\ rtPc' = "raised"
    /\ rtRun' = NoProcess
    /\ rtResult' = NoResult
    /\ UNCHANGED files
    /\ TestsOnly

\* tmp.write(test_code) and the close at the end of the with block succeed.
WriteTemp ==
    /\ rtPc = "created"
    /\ rtPc' = "written"
    /\ UNCHANGED <<tmp_path, files, rtCalls, rtRun, rtResult>>
    /\ TestsOnly

\* tmp.write(test_code) or the closing flush raises (text the file's
\* encoding cannot encode, a full disk).
WriteFault ==
    /\ rtPc = "created"
    /\ UNCHANGED rtRun
    /\ Leave("created", "raised", NoResult)

\* subprocess.run returns: the result is built and the finally clause runs.
RunnerExits(returncode, stdout, stderr) ==
    /\ rtPc = "written"
    /\ rtRun' = Process(returncode, stdout, stderr)
    /\ Leave("written", "returned", TestsResult(returncode, stdout, stderr))

\* subprocess.run raises (the runner cannot be invoked): the finally clause runs.
RunnerFault ==
    /\ rtPc = "written"
    /\ UNCHANGED rtRun
    /\ Leave("written", "raised", NoResult)

InitTests ==
    /\ rtPc = "idle"
    /\ tmp_path = 0
    /\ files = {}
    /\ rtCalls = 0
    /\ rtRun = NoProcess
    /\ rtResult = NoResult

----------------------------------------------------------------------------
\* ---- The lazily made vector store ----
\* tools.py: _get_vector_store; utils/vector_store_singleton.py: get_vector_store.
\* The tools node runs the ToolCalls of one assistant message on a thread
\* pool, so two tools may be inside an accessor at once.

Callers == {"a", "b"}

Accessors == {"tools", "utils"}

\* The global the accessor f reads and writes.
GlobalOf(f) == IF f = "tools" THEN _vector_store ELSE vector_store

\* A caller enters an accessor.
AccessorCall(t, f) ==
    /\ accPc[t] \in {"idle", "done", "raised"}
    /\ accUses[t] < MaxUses
    /\ accUses' = [accUses EXCEPT ![t] = @ + 1]
    /\ accFn' = [accFn EXCEPT ![t] = f]
    /\ accPc' = [accPc EXCEPT ![t] = "check"]
    /\ accGot' = [accGot EXCEPT ![t] = 0]
    /\ UNCHANGED <<_vector_store, vector_store, constructions, accLocal>>
    /\ StoreOnly

\* `if <global> is None:` reads the global: an unbound name raises
\* NameError, None leads to the constructor, an instance to the return.
AccessorCheck(t) ==
    /\ accPc[t] = "check"
    /\ accPc' = [accPc EXCEPT ![t] =
          CASE GlobalOf(accFn[t]) = -1 -> "raised"
            [] GlobalOf(accFn[t]) = 0 -> "construct"
            [] OTHER -> "return"]
    /\ UNCHANGED <<_vector_store, vector_store, constructions, accFn, accLocal, accGot, accUses>>
    /\ StoreOnly

\* CodeVectorStore() runs: the embedding model is loaded and a new instance made.
AccessorConstruct(t) ==
    /\ accPc[t] = "construct"
    /\ constructions' = constructions + 1
    /\ accLocal' = [accLocal EXCEPT ![t] = constructions + 1]
    /\ accPc' = [accPc EXCEPT ![t] = "assign"]
    /\ UNCHANGED <<_vector_store, vector_store, accFn, accGot, accUses>>
    /\ StoreOnly

\* CodeVectorStore() raises (the model cannot be loaded).
AccessorConstructFault(t) ==
    /\ accPc[t] = "construct"
    /\ accPc' = [accPc EXCEPT ![t] = "raised"]
    /\ UNCHANGED <<_vector_store, vector_store, constructions, accFn, accLocal, accGot, accUses>>
    /\ StoreOnly

\* The assignment of the new instance to the global.
AccessorAssign(t) ==
    /\ accPc[t] = "assign"
    /\ IF accFn[t] = "tools"
       THEN _vector_store' = accLocal[t] /\ UNCHANGED vector_store
       ELSE vector_store' = accLocal[t] /\ UNCHANGED _vector_store
    /\ accPc' = [accPc EXCEPT ![t] = "return"]
    /\ UNCHANGED <<constructions, accFn, accLocal, accGot, accUses>>
    /\ StoreOnly

\* `return <global>` reads the global again.
AccessorReturn(t) ==
    /\ accPc[t] = "return"
    /\ accGot' = [accGot EXCEPT ![t] = GlobalOf(accFn[t])]
    /\ accPc' = [accPc EXCEPT ![t] = "done"]
    /\ UNCHANGED <<_vector_store, vector_store, constructions, accFn, accLocal, accUses>>
    /\ StoreOnly

InitStore ==
    /\ _vector_store = 0
    /\ vector_store = -1
    /\ constructions = 0
    /\ accPc = [t \in Callers |-> "idle"]
    /\ accFn = [t \in Callers |-> "tools"]
    /\ accLocal = [t \in Callers |-> 0]
    /\ accGot = [t \in Callers |-> 0]
    /\ accUses = [t \in Callers |-> 0]

----------------------------------------------------------------------------
\* ---- Indexing repositories ----
\* tools.py: index_github_repositories; utils/github_searcher.py: GitHubSearcher.

\* The values of max_repos a caller passes (3 is the default).
Requests == {1, 3, 5, 10}

\* Values of the credential: unset, set to the empty string, set.
Tokens == {"None", "", "tok"}

\* `not token`
NoToken(tok) == tok \in {"None", ""}

\* The cap on the number of repositories asked for.
RepoCap == 5

\* A variant of the cap that passes the request through.
CappedNot(n) == n

\* max_repos = min(max_repos, 5)
Capped(n) == IF n < RepoCap THEN n ELSE RepoCap

\* The search API: the matching repositories by stars, at most per_page of
\* them.  A repository is named by its rank.
SearchItems(matching, perPage) ==
    [i \in 1..(IF matching < perPage THEN matching ELSE perPage) |-> i]

\* The chunks the loader and the splitter make of repository r.
ChunksOf(r) == << [repo |-> r, part |-> 1], [repo |-> r, part |-> 2] >>

\* How processing one repository ends: it is indexed, or the fetch, the
\* split or the add raises.
RepoOutcomes == {"ok", "fetch", "split", "add"}

ErrorLine == [kind |-> "error", repo |-> 0, why |-> "GITHUB_ACCESS_TOKEN"]
NoReposLine == [kind |-> "norepos", repo |-> 0, why |-> ""]
HeaderLine == [kind |-> "header", repo |-> 0, why |-> ""]
SuccessLine(r) == [kind |-> "success", repo |-> r, why |-> ""]
FailureLine(r, e) == [kind |-> "failure", repo |-> r, why |-> e]

\* A variant of add_documents that stores a chunk under an id made from its
\* content: a chunk stored before is replaced by the new copy.
add_documents_upsert(store, documents) ==
    LET new == {documents[i] : i \in 1..Len(documents)}
    IN SelectSeq(store, LAMBDA c : c \notin new) \o documents

\* CodeVectorStore.add_documents: the documents are handed to the collection
\* as they are.  They carry no id, so the collection stores each under a
\* fresh one, after what it holds.
add_documents(store, documents) == store \o documents

\* A variant of the loop body that adds the first chunk before the rest of
\* the work is known to succeed.
AfterRepoEager(r, outcome) ==
    [chroma |-> IF outcome \in {"ok", "add"} THEN chroma \o ChunksOf(r) ELSE chroma,
     line |-> IF outcome = "ok" THEN SuccessLine(r) ELSE FailureLine(r, outcome)]

\* The body of the loop over repos (tools.py) and _store_repo_info
\* (github_searcher.py): load, split and add inside one try; a fault of any
\* of them leaves the collection as it was and yields the failure line.
AfterRepo(r, outcome) ==
    [chroma |-> IF outcome = "ok" THEN add_documents(chroma, ChunksOf(r)) ELSE chroma,
     line |-> IF outcome = "ok" THEN SuccessLine(r) ELSE FailureLine(r, outcome)]

\* A variant of the entry that sends the search request before looking at
\* the credential.
EntryPcSearchFirst(tok) == "search"

\* Where the call goes after reading the credential.
EntryPc(tok) == IF NoToken(tok) THEN "returned" ELSE "search"

\* The tool is called: the credential is read; without one the error line
\* is returned, with one the capped search request is sent.
IndexCall(impl, n) ==
    /\ ixPc \in {"idle", "returned", "raised"}
    /\ ixCalls < MaxIndexCalls
    /\ ixCalls' = ixCalls + 1
    /\ ixImpl' = impl
    /\ max_repos' = n
    /\ chromaAtCall' = chroma
    /\ storeAtCall' = _vector_store
    /\ repos' = <<>>
    /\ ixI' = 1
    /\ summary_lines' = <<>>
    /\ searched' = ""
    /\ ixPc' = EntryPc(token)
    /\ IF ixPc' = "returned"
       THEN /\ ixResult' = <<ErrorLine>>
            /\ per_page' = 0
            /\ netCalls' = 0
       ELSE /\ ixResult' = <<>>
            /\ per_page' = Capped(n)
            /\ netCalls' = 1
    /\ UNCHANGED <<token, chroma, _vector_store, constructions>>
    /\ IndexOnly

\* urlopen or json.loads raises: nothing catches it.
SearchFault ==
    /\ ixPc = "search"
    /\ searched' = "fault"
    /\ ixPc' = "raised"
    /\ UNCHANGED <<token, chroma, ixImpl, max_repos, per_page, netCalls, repos, ixI,
                   summary_lines, ixResult, chromaAtCall, storeAtCall, ixCalls>>
    /\ UNCHANGED <<_vector_store, constructions>>
    /\ IndexOnly

\* tools.py: the search returns no item: the message is returned.
SearchEmpty ==
    /\ ixPc = "search" /\ ixImpl = "tools"
    /\ searched' = "empty"
    /\ ixResult' = <<NoReposLine>>
    /\ ixPc' = "returned"
    /\ UNCHANGED <<token, chroma, ixImpl, max_repos, per_page, netCalls, repos, ixI,
                   summary_lines, chromaAtCall, storeAtCall, ixCalls>>
    /\ UNCHANGED <<_vector_store, constructions>>
    /\ IndexOnly

\* tools.py: the search returns items; the loader, the splitter and the
\* vector store are made and the header line is written.
SearchReturns(matching) ==
    /\ ixPc = "search" /\ ixImpl = "tools"
    /\ matching >= 1
    /\ searched' = "ok"
    /\ repos' = SearchItems(matching, per_page)
    /\ IF _vector_store = 0
       THEN /\ constructions' = constructions + 1
            /\ _vector_store' = constructions + 1
       ELSE UNCHANGED <<_vector_store, constructions>>
    /\ summary_lines' = <<HeaderLine>>
    /\ ixI' = 1
    /\ ixPc' = "loop"
    /\ UNCHANGED <<token, chroma, ixImpl, max_repos, per_page, netCalls, ixResult,
                   chromaAtCall, storeAtCall, ixCalls>>
    /\ IndexOnly

\* tools.py: the search returns items and CodeVectorStore() raises inside
\* _get_vector_store: nothing catches it.
StoreInitFault(matching) ==
    /\ ixPc = "search" /\ ixImpl = "tools"
    /\ matching >= 1
    /\ _vector_store = 0
    /\ searched' = "ok"
    /\ repos' = SearchItems(matching, per_page)
    /\ ixPc' = "raised"
    /\ UNCHANGED <<token, chroma, ixImpl, max_repos, per_page, netCalls, ixI,
                   summary_lines, ixResult, chromaAtCall, storeAtCall, ixCalls>>
    /\ UNCHANGED <<_vector_store, constructions>>
    /\ IndexOnly

\* github_searcher.py: _get_repos returns None, or the message when there is
\* no item; index_repositories then calls get_vector_store, whose global is
\* unbound: NameError, which nothing catches.
SearcherSearchEnds(matching) ==
    /\ ixPc = "search" /\ ixImpl = "searcher"
    /\ searched' = IF matching = 0 THEN "empty" ELSE "ok"
    /\ vector_store = -1
    /\ ixPc' = "raised"
    /\ UNCHANGED <<token, chroma, ixImpl, max_repos, per_page, netCalls, repos, ixI,
                   summary_lines, ixResult, chromaAtCall, storeAtCall, ixCalls>>
    /\ UNCHANGED <<_vector_store, constructions>>
    /\ IndexOnly

\* A variant of the loop that writes a line only for a repository it indexed.
ProcessRepoQuietFailure(outcome) ==
    /\ ixPc = "loop"
    /\ ixI <= Len(repos)
    /\ LET after == AfterRepo(repos[ixI], outcome) IN
        /\ chroma' = after.chroma
        /\ summary_lines' = IF outcome = "ok" THEN Append(summary_lines, after.line)
                            ELSE summary_lines
    /\ netCalls' = netCalls + 1
    /\ ixI' = ixI + 1
    /\ IF ixI' > Len(repos)
       THEN ixPc' = "returned" /\ ixResult' = summary_lines'
       ELSE UNCHANGED <<ixPc, ixResult>>
    /\ UNCHANGED <<token, ixImpl, max_repos, per_page, searched, repos,
                   chromaAtCall, storeAtCall, ixCalls>>
    /\ UNCHANGED <<_vector_store, constructions>>
    /\ IndexOnly

\* One pass of the loop over repos; after the last repository the joined
\* summary is returned.
ProcessRepo(outcome) ==
    /\ ixPc = "loop"
    /\ ixI <= Len(repos)
    /\ LET after == AfterRepo(repos[ixI], outcome) IN
        /\ chroma' = after.chroma
        /\ summary_lines' = Append(summary_lines, after.line)
    /\ netCalls' = netCalls + 1
    /\ ixI' = ixI + 1
    /\ IF ixI' > Len(repos)
       THEN ixPc' = "returned" /\ ixResult' = summary_lines'
       ELSE UNCHANGED <<ixPc, ixResult>>
    /\ UNCHANGED <<token, ixImpl, max_repos, per_page, searched, repos,
                   chromaAtCall, storeAtCall, ixCalls>>
    /\ UNCHANGED <<_vector_store, constructions>>
    /\ IndexOnly

\* The collection is persisted: a process may start with chunks of an
\* earlier run in it.
InitIndex ==
    /\ token \in Tokens
    /\ chroma \in {<<>>, ChunksOf(1)}
    /\ ixPc = "idle"
    /\ ixImpl = "tools"
    /\ max_repos = 0
    /\ per_page = 0
    /\ netCalls = 0
    /\ searched = ""
    /\ repos = <<>>
    /\ ixI = 1
    /\ summary_lines = <<>>
    /\ ixResult = <<>>
    /\ chromaAtCall = chroma
    /\ storeAtCall = 0
    /\ ixCalls = 0

----------------------------------------------------------------------------
\* ---- Retrieval and the refactor tool ----
\* tools.py: _rag_context, refactor; utils/code_refactorer.py: CodeRefactorer;
\* rag/vector_store.py: CodeVectorStore.as_retriever.

\* The number of chunks _rag_context asks the retriever for.
RetrieverK == 3

\* The text of a file every repository carries with the same content (an
\* empty package file, a licence header).
Boilerplate == <<0, 1>>

\* The file a chunk was cut from.
FileOf(c) == <<c.repo, c.part>>

\* Document.page_content: part 1 of a repository is its boilerplate file,
\* part 2 a file with a text of its own.
page_content(c) == IF c.part = 1 THEN Boilerplate ELSE <<c.repo, c.part>>

\* Texts a caller passes as code: the boilerplate, the text of a file of
\* repository 1, a text no repository holds.
Texts == {Boilerplate, <<1, 2>>, <<9, 9>>}

\* The argument code: its first 500 characters, and whether more follow.
Codes == [head : Texts, more : BOOLEAN]

NoCode == [head |-> <<>>, more |-> FALSE]

\* code[:500]
Prefix500(c) == c.head

\* The arguments instructions a caller passes ("" is the default).
Instructions == {"", "use dataclasses"}

\* What the refactor model answers with.
ModelOutputs == {"refactored", "fenced"}

\* The positions of the stored chunks whose text is q: the embedding is a
\* function of the text, so these are at distance zero from the query.
Matches(q) == {i \in 1..Len(chroma) : page_content(chroma[i]) = q}

\* The similarity search for the k chunks nearest to q: k positions (all of
\* them when fewer are stored), none at a greater distance preferred to one
\* at distance zero.  Which of several equally near chunks are returned is
\* the library's choice.
Retrievals(q, k) ==
    {h \in SUBSET (1..Len(chroma)) :
        /\ Cardinality(h) = (IF Len(chroma) < k THEN Len(chroma) ELSE k)
        /\ (Matches(q) \subseteq h \/ h \subseteq Matches(q))}

\* The chunks at the positions h, most similar to q first.
Retrieved(q, h) ==
    LET idx == [i \in 1..Len(chroma) |-> i]
        near == SelectSeq(idx, LAMBDA i : i \in h /\ i \in Matches(q))
        far == SelectSeq(idx, LAMBDA i : i \in h /\ i \notin Matches(q))
    IN [j \in 1..Cardinality(h) |-> chroma[(near \o far)[j]]]

\* "\n\n---\n\n".join(d.page_content for d in docs): the texts in order; the
\* empty string is <<>>.
ContextOf(ds) == [i \in 1..Len(ds) |-> page_content(ds[i])]

\* The mapping refactor passes to the chain; an empty section is <<>>.
BuildPrompt(c, instr, context) ==
    [code |-> c,
     instructions_section |->
        IF instr # "" THEN <<"Specific instructions:", instr>> ELSE <<>>,
     context_section |->
        IF context # <<>> THEN <<"Similar code patterns for reference:", context>> ELSE <<>>]

NoPrompt == [code |-> NoCode, instructions_section |-> <<>>, context_section |-> <<>>]

\* A variant of _rag_context without the except clause: a fault of the
\* retrieval step leaves refactor.
RagNextPropagates(how) == IF how = "ok" THEN "chain" ELSE "raised"

\* _rag_context: try ... except Exception: return "".  However the
\* retrieval step ends, refactor goes on to build the prompt.
RagNext(how) == "chain"

\* What _rag_context returns: the retrieved chunks, or "" after a fault.
RagDocs(how, ds) == IF how = "ok" THEN ds ELSE <<>>

\* Whether the accessor the implementation uses can hand out a store: the
\* one of tools.py constructs it when needed, the one of
\* vector_store_singleton.py reads its global.
StoreReady(impl) == IF impl = "tools" THEN TRUE ELSE vector_store > 0

\* Refactoring leaves the session, the files of run_tests, the callers of
\* the accessors and the index tool's call alone.
RefactorOnly ==
    /\ ToolOnly
    /\ UNCHANGED <<testVars, execVars>>
    /\ UNCHANGED <<vector_store, accPc, accFn, accLocal, accGot, accUses>>
    /\ UNCHANGED <<token, chroma, ixPc, ixImpl, max_repos, per_page, netCalls, searched, repos,
                   ixI, summary_lines, ixResult, chromaAtCall, storeAtCall, ixCalls>>

\* refactor is called.
RefactorCall(impl, c, instr) ==
    /\ rfPc \in {"idle", "returned", "raised"}
    /\ rfCalls < MaxRefactors
    /\ rfCalls' = rfCalls + 1
    /\ rfImpl' = impl
    /\ code' = c
    /\ instructions' = instr
    /\ rfPc' = "rag"
    /\ rfRag' = ""
    /\ docs' = <<>>
    /\ rfPrompt' = NoPrompt
    /\ rfModel' = ""
    /\ rfResult' = ""
    /\ UNCHANGED <<_vector_store, constructions>>
    /\ RefactorOnly

\* The rest of refactor up to the call of the chain, after the retrieval
\* step ended as `how` with the chunks ds.
AfterRag(how, ds) ==
    /\ rfRag' = how
    /\ docs' = RagDocs(how, ds)
    /\ rfPc' = RagNext(how)
    /\ rfPrompt' = IF rfPc' = "chain"
                   THEN BuildPrompt(code, instructions, ContextOf(docs'))
                   ELSE NoPrompt
    /\ UNCHANGED <<rfImpl, code, instructions, rfModel, rfResult, rfCalls>>
    /\ RefactorOnly

\* _get_vector_store inside _rag_context: the store is made when the global
\* holds none.
ObtainStore ==
    IF rfImpl = "tools" /\ _vector_store = 0
    THEN /\ constructions' = constructions + 1
         /\ _vector_store' = constructions + 1
    ELSE UNCHANGED <<_vector_store, constructions>>

\* The accessor raises: CodeVectorStore() cannot load the embedding model or
\* open the collection (tools.py), or the global is unbound
\* (vector_store_singleton.py).
RagStoreFault ==
    /\ rfPc = "rag"
    /\ IF rfImpl = "tools" THEN _vector_store = 0 ELSE vector_store = -1
    /\ UNCHANGED <<_vector_store, constructions>>
    /\ AfterRag("init", <<>>)

\* The retriever raises.
RagQueryFault ==
    /\ rfPc = "rag"
    /\ StoreReady(rfImpl)
    /\ ObtainStore
    /\ AfterRag("query", <<>>)

\* The retriever returns the chunks at the positions h.
RagRetrieves(h) ==
    /\ rfPc = "rag"
    /\ StoreReady(rfImpl)
    /\ h \in Retrievals(Prefix500(code), RetrieverK)
    /\ ObtainStore
    /\ AfterRag("ok", Retrieved(Prefix500(code), h))

\* _refactor_chain.invoke returns: the prompt, the model, the output parser.
ChainReturns(out) ==
    /\ rfPc = "chain"
    /\ rfModel' = out
    /\ rfResult' = out
    /\ rfPc' = "returned"
    /\ UNCHANGED <<rfImpl, code, instructions, rfRag, docs, rfPrompt, rfCalls>>
    /\ UNCHANGED <<_vector_store, constructions>>
    /\ RefactorOnly

\* The model call raises.
ChainFault ==
    /\ rfPc = "chain"
    /\ rfModel' = "fault"
    /\ rfPc' = "raised"
    /\ UNCHANGED <<rfImpl, code, instructions, rfRag, docs, rfPrompt, rfResult, rfCalls>>
    /\ UNCHANGED <<_vector_store, constructions>>
    /\ RefactorOnly

InitRefactor ==
    /\ rfPc = "idle"
    /\ rfImpl = "tools"
    /\ code = NoCode
    /\ instructions = ""
    /\ rfRag = ""
    /\ docs = <<>>
    /\ rfPrompt = NoPrompt
    /\ rfModel = ""
    /\ rfResult = ""
    /\ rfCalls = 0

----------------------------------------------------------------------------
\* ---- The linter and the formatter ----
\* tools.py: lint, format_code; utils/ruff_parser.py: RuffParser.

\* What the linter writes to stdout: nothing; JSON lists of no, one and two
\* findings; a cut-off list; a message that is no JSON; JSON of other shapes.
LintOutputs ==
    { "", "[]", "[F]", "[F,F]", "[F", "error: unexpected argument",
      "{}", "{\"error\": 1}", "[{}]", "null" }

\* A JSON value as json.loads returns it: its type and, for a list, the kind
\* of each item ("finding": an object with location, code and message;
\* "object": an object without them); for an object, its keys.
Json(type, items) == [t |-> type, items |-> items]

\* json.loads: "invalid" stands for JSONDecodeError.
json_loads(text) ==
    CASE text = "[]" -> Json("list", <<>>)
      [] text = "[F]" -> Json("list", <<"finding">>)
      [] text = "[F,F]" -> Json("list", <<"finding", "finding">>)
      [] text = "{}" -> Json("dict", <<>>)
      [] text = "{\"error\": 1}" -> Json("dict", <<"key">>)
      [] text = "[{}]" -> Json("list", <<"object">>)
      [] text = "null" -> Json("null", <<>>)
      [] OTHER -> Json("invalid", <<>>)

\* What a call came to: the value it returned, or the exception it raised.
Returned(v) == [exc |-> "", value |-> v]
Raised(e) == [exc |-> e, value |-> <<>>]

\* The exception the comprehension of extract_violations raises on the item
\* v, "" when it formats it: a string key cannot be subscripted by a name,
\* an object without the fields has no key 'location'.
ItemFault(v) ==
    CASE v = "finding" -> ""
      [] v = "object" -> "KeyError"
      [] OTHER -> "TypeError"

\* RuffParser.extract_violations: json.loads(lint_output or "[]"), then one
\* formatted line per item of the value.
extract_violations(lint_output) ==
    LET value == json_loads(IF lint_output = "" THEN "[]" ELSE lint_output)
        faulty == {i \in 1..Len(value.items) : ItemFault(value.items[i]) # ""}
    IN CASE value.t = "invalid" -> Raised("JSONDecodeError")
         [] value.t = "null" -> Raised("TypeError")
         [] faulty # {} ->
              Raised(ItemFault(value.items[CHOOSE i \in faulty : \A j \in faulty : i <= j]))
         [] OTHER -> Returned([i \in 1..Len(value.items) |-> "row:column code: message"])

NoRun == [ran |-> FALSE, returncode |-> 0, stdout |-> ""]
Completed(rc, out) == [ran |-> TRUE, returncode |-> rc, stdout |-> out]

\* The linter and the formatter leave everything else alone.
LintOnly ==
    /\ ToolOnly
    /\ UNCHANGED <<testVars, storeVars, indexVars, refactorVars, formatVars>>

FormatOnly ==
    /\ ToolOnly
    /\ UNCHANGED <<testVars, storeVars, indexVars, refactorVars, lintVars>>

\* lint is called: subprocess.run starts the linter and waits for it.
LintCall ==
    /\ lintPc \in {"idle", "returned", "raised"}
    /\ lintCalls < MaxLints
    /\ lintCalls' = lintCalls + 1
    /\ lintPc' = "waiting"
    /\ lintRun' = NoRun
    /\ violations' = <<>>
    /\ lintExc' = ""
    /\ LintOnly

\* The linter exits with `out` on stdout: the output is parsed and the
\* AnalysisResult returned, or the parser's exception leaves lint.
LinterExits(rc, out) ==
    /\ lintPc = "waiting"
    /\ lintRun' = Completed(rc, out)
    /\ LET parsed == extract_violations(out) IN
        /\ lintPc' = IF parsed.exc = "" THEN "returned" ELSE "raised"
        /\ violations' = parsed.value
        /\ lintExc' = parsed.exc
    /\ UNCHANGED lintCalls
    /\ LintOnly

\* subprocess.run raises: the linter cannot be started.
LinterFault ==
    /\ lintPc = "waiting"
    /\ lintPc' = "raised"
    /\ lintExc' = "OSError"
    /\ UNCHANGED <<lintRun, violations, lintCalls>>
    /\ LintOnly

\* format_code is called: subprocess.run starts the formatter and waits.
FormatCall ==
    /\ fmtPc \in {"idle", "returned", "raised"}
    /\ fmtCalls < MaxFormats
    /\ fmtCalls' = fmtCalls + 1
    /\ fmtPc' = "waiting"
    /\ fmtRun' = NoRun
    /\ fmtResult' = ""
    /\ UNCHANGED fmtLog
    /\ FormatOnly

\* What the formatter does: it exits 0 with the formatted text (the empty
\* text for empty code), or 2 with nothing on stdout when the code does not
\* parse.
FormatterRuns ==
    { Completed(0, "x = 1"), Completed(0, ""), Completed(2, "") }

\* return result.stdout
format_code(run) == run.stdout

\* The formatter exits: its stdout is returned.
FormatterExits(run) ==
    /\ fmtPc = "waiting"
    /\ fmtRun' = run
    /\ fmtResult' = format_code(run)
    /\ fmtLog' = Append(fmtLog, [returncode |-> run.returncode, result |-> fmtResult'])
    /\ fmtPc' = "returned"
    /\ UNCHANGED fmtCalls
    /\ FormatOnly

\* subprocess.run raises: the formatter cannot be started.
FormatterFault ==
    /\ fmtPc = "waiting"
    /\ fmtPc' = "raised"
    /\ UNCHANGED <<fmtRun, fmtResult, fmtLog, fmtCalls>>
    /\ FormatOnly

InitExec ==
    /\ lintPc = "idle"
    /\ lintRun = NoRun
    /\ violations = <<>>
    /\ lintExc = ""
    /\ lintCalls = 0
    /\ fmtPc = "idle"
    /\ fmtRun = NoRun
    /\ fmtResult = ""
    /\ fmtLog = <<>>
    /\ fmtCalls = 0

----------------------------------------------------------------------------
\* Specifications.

Init ==
    /\ InitAgent
    /\ InitTests
    /\ InitStore
    /\ InitIndex
    /\ InitRefactor
    /\ InitExec

\* The session and the graph leave the tools' state alone: the credential
\* and the collection are fixed there.
InitSession == Init /\ token = "tok" /\ chroma = <<>>

\* The tools run the same whichever error handler the tool node has.
InitTool == InitSession /\ catchAll = FALSE

InitIndexing == Init /\ catchAll = FALSE

\* The command-line session and the orchestrator graph.
Next ==
    \/ \E script \in Scripts : ReadInput(script)
    \/ Interrupt
    \/ InvokeRejected
    \/ \E hasText \in BOOLEAN, n \in CallCounts : Orchestrator(hasText, n)
    \/ ModelFault
    \/ \E outcome \in OutcomesOf(PendingCalls) : Tools(outcome)
    \/ \E outcome \in OutcomesOf(PendingCalls) : ToolFault(outcome)
    \/ RecursionError
    \/ InvokeReturn

Spec == InitSession /\ [][Next]_vars

\* Calls of run_tests.
NextRunTests ==
    \/ CreateTemp
    \/ CreateFault
    \/ WriteTemp
    \/ WriteFault
    \/ \E rc \in ReturnCodes, out \in Outputs, err \in Outputs : RunnerExits(rc, out, err)
    \/ RunnerFault

SpecRunTests == InitTool /\ [][NextRunTests]_vars

\* Concurrent uses of the accessors of the vector store.
NextStore ==
    \/ \E t \in Callers, f \in Accessors : AccessorCall(t, f)
    \/ \E t \in Callers : AccessorCheck(t)
    \/ \E t \in Callers : AccessorConstruct(t)
    \/ \E t \in Callers : AccessorConstructFault(t)
    \/ \E t \in Callers : AccessorAssign(t)
    \/ \E t \in Callers : AccessorReturn(t)

SpecStore == InitTool /\ [][NextStore]_vars

\* Calls of the index tool.
NextIndex ==
    \/ \E impl \in {"tools", "searcher"}, n \in Requests : IndexCall(impl, n)
    \/ SearchFault
    \/ SearchEmpty
    \/ \E matching \in 1..MaxMatch : SearchReturns(matching)
    \/ \E matching \in 1..MaxMatch : StoreInitFault(matching)
    \/ \E matching \in 0..MaxMatch : SearcherSearchEnds(matching)
    \/ \E outcome \in RepoOutcomes : ProcessRepo(outcome)

SpecIndex == InitIndexing /\ [][NextIndex]_vars

\* Calls of refactor on a collection an earlier run left empty or filled.
InitRefactoring == Init /\ token = "tok" /\ catchAll = FALSE

NextRefactor ==
    \/ \E impl \in {"tools", "refactorer"}, c \in Codes, instr \in Instructions :
          RefactorCall(impl, c, instr)
    \/ RagStoreFault
    \/ RagQueryFault
    \/ \E h \in SUBSET (1..Len(chroma)) : RagRetrieves(h)
    \/ \E out \in ModelOutputs : ChainReturns(out)
    \/ ChainFault

SpecRefactor == InitRefactoring /\ [][NextRefactor]_vars

\* Calls of lint and of format_code; the tools node may run one of each at a
\* time.
NextExec ==
    \/ LintCall
    \/ \E rc \in {0, 1}, out \in LintOutputs : LinterExits(rc, out)
    \/ LinterFault
    \/ FormatCall
    \/ \E run \in FormatterRuns : FormatterExits(run)
    \/ FormatterFault

SpecExec == InitTool /\ [][NextExec]_vars

\* Indexing repositories, then refactoring code taken from one of their
\* files.
NextRetrieve ==
    \/ \E n \in {3, 5} : IndexCall("tools", n)
    \/ \E matching \in {2, 4} : SearchReturns(matching)
    \/ \E outcome \in {"ok", "fetch"} : ProcessRepo(outcome)
    \/ \E head \in {Boilerplate, <<1, 2>>} :
          RefactorCall("tools", [head |-> head, more |-> FALSE], "")
    \/ \E h \in SUBSET (1..Len(chroma)) : RagRetrieves(h)
    \/ ChainReturns("refactored")

SpecRetrieve == InitRefactoring /\ [][NextRetrieve]_vars

\* ---- Waiting for a process or a service ----

\* The calls that block on something outside the program: subprocess.run in
\* lint, format_code and run_tests, urlopen in the repository search, and
\* the loader's requests for the files of a repository.
Sites == {"lint", "format_code", "run_tests", "search", "fetch"}

\* The timeout a blocking call is given.  No subprocess.run of tools.py
\* passes timeout=, urlopen(req) is called without one and no default
\* socket timeout is set, and the loader is made without one: each of them
\* waits for as long as the other side takes.
TimeoutOf(site) == "None"

\* The call at the site has been made and has not come back.
Waiting(site) ==
    CASE site = "lint" -> lintPc = "waiting"
      [] site = "format_code" -> fmtPc = "waiting"
      [] site = "run_tests" -> rtPc = "written"
      [] site = "search" -> ixPc = "search"
      [] site = "fetch" -> ixPc = "loop"

\* The tool that made the call has returned or raised.
Ended(site) ==
    CASE site = "lint" -> lintPc \in {"returned", "raised"}
      [] site = "format_code" -> fmtPc \in {"returned", "raised"}
      [] site = "run_tests" -> rtPc \in {"returned", "raised"}
      [] OTHER -> ixPc \in {"returned", "raised"}

\* The timeout of a blocking call passes: the call raises (TimeoutExpired,
\* URLError, a requests timeout) and the tool goes the way of a fault.
TimedOut(site) ==
    /\ TimeoutOf(site) # "None"
    /\ Waiting(site)
    /\ CASE site = "lint" -> LinterFault
         [] site = "format_code" -> FormatterFault
         [] site = "run_tests" -> RunnerFault
         [] site = "search" -> SearchFault
         [] site = "fetch" -> ProcessRepo("fetch")

\* The tools while they wait.  The process or the service answers when it
\* answers; nothing obliges it to.
NextWaits ==
    \/ LintCall
    \/ \E out \in {"[]", "[F]"} : LinterExits(0, out)
    \/ FormatCall
    \/ \E run \in FormatterRuns : FormatterExits(run)
    \/ CreateTemp
    \/ WriteTemp
    \/ \E rc \in ReturnCodes : RunnerExits(rc, <<"x">>, <<>>)
    \/ \E n \in {1, 3} : IndexCall("tools", n)
    \/ SearchEmpty
    \/ \E matching \in 1..2 : SearchReturns(matching)
    \/ \E outcome \in {"ok", "fetch"} : ProcessRepo(outcome)

\* The program takes its own steps, and a timeout that was set passes; the
\* processes and services it waits for are under no such obligation.
FairWaits ==
    /\ WF_vars(WriteTemp)
    /\ \A site \in Sites : WF_vars(TimedOut(site))

SpecWaits == InitTool /\ [][NextWaits]_vars /\ FairWaits

----------------------------------------------------------------------------
\* Properties of the orchestrator graph and of the session loop.

\* The number of ToolMessages of msgs that answer the ToolCall id.
Answers(msgs, id) ==
    Cardinality({j \in 1..Len(msgs) : msgs[j].type = "tool" /\ msgs[j].tool_call_id = id})

\* The ToolMessages answering the ToolCall id, all after position i.
AnsweredOnceAfter(msgs, i, id) ==
    /\ Answers(msgs, id) = 1
    /\ \A j \in 1..Len(msgs) :
        (msgs[j].type = "tool" /\ msgs[j].tool_call_id = id) => j > i

\* The ToolCall ids carried by the assistant messages of msgs.
CallIds(msgs) ==
    UNION {{msgs[i].tool_calls[k] : k \in 1..Len(msgs[i].tool_calls)} : i \in 1..Len(msgs)}

\* C1: whenever the orchestrator is the next node to run (a model call is
\* about to be made), every ToolCall of every assistant message in the state
\* has exactly one ToolMessage with its correlation id, placed after the
\* message that carries the call; and at no time does a ToolCall have two.
C1_ToolCallsAnswered ==
    /\ \A id \in CallIds(messages) : Answers(messages, id) <= 1
    /\ node = "orchestrator" =>
        \A i \in 1..Len(messages) : \A k \in 1..Len(messages[i].tool_calls) :
            AnsweredOnceAfter(messages, i, messages[i].tool_calls[k])

\* C1 witness: a second model call is due after a message with two ToolCalls.
C1_Witness ==
    /\ node = "orchestrator" /\ steps = 2
    /\ Len(messages[Len(messages) - 2].tool_calls) = 2

\* C2: a turn enters the graph at the orchestrator; a model call leads to
\* the tools node exactly when its reply carries a ToolCall and to END
\* otherwise; the tools node leads to the orchestrator and never to END; and
\* the turn completes (main prints the response) only from END.
C2_Transitions ==
    [][ /\ (cli = "read" /\ cli' = "invoke") => (node' = "orchestrator" /\ steps' = 0)
        /\ (node = "orchestrator" /\ steps' = steps + 1) =>
              /\ node' \in {"tools", "END"}
              /\ node' = "tools" <=> messages'[Len(messages')].tool_calls # <<>>
        /\ node = "tools" => node' # "END"
        /\ (node = "tools" /\ steps' = steps + 1) => node' = "orchestrator"
        /\ (printed' = "response" /\ printed # "response") => node = "END"
        /\ node' = "END" => node \in {"orchestrator", "END"}
      ]_vars

\* C2 witness: a turn that went orchestrator, tools, orchestrator, END.
C2_Witness ==
    /\ node = "END" /\ steps = 3
    /\ messages[Len(messages)].tool_calls = <<>>
    /\ messages[Len(messages) - 1].type = "tool"

\* C3: an invocation never takes more supersteps than the limit, and an
\* invocation that has used them all with a node still due ends in the
\* labelled error (or the user's interrupt), never in a response.
C3_CycleBudget ==
    /\ [](steps <= RecursionLimit)
    /\ [][ (cli = "invoke" /\ steps = RecursionLimit /\ node \in {"orchestrator", "tools"}) =>
              \/ (printed' = "error" /\ cli' = "read")
              \/ cli' = "exited"
         ]_vars

\* C3 witness: the model asked for tools on every call and the limit is used
\* up with the tools node still due.
C3_Witness ==
    cli = "invoke" /\ steps = RecursionLimit /\ node = "tools"

C13_InvalidCallAnswered ==
    /\ [](exc # "ValidationError")
    /\ [](\A i \in 1..Len(messages) :
            (messages[i].type = "tool" /\ messages[i].content.lines = <<"invalid">>) =>
                messages[i].status = "error")
    /\ [][ (cli = "invoke" /\ node = "tools" /\ cli' = "invoke") =>
              /\ node' = "orchestrator"
              /\ Len(messages') = Len(messages) + Len(PendingCalls)
              /\ SubSeq(messages', 1, Len(messages)) = messages
              /\ \A k \in 1..Len(PendingCalls) :
                    /\ messages'[Len(messages) + k].type = "tool"
                    /\ messages'[Len(messages) + k].tool_call_id = PendingCalls[k]
         ]_vars

\* C13 witness: under the handler that re-raises what a tool raises, a
\* ToolCall was answered with the error of its validation and the model was
\* called again.
C13_Witness ==
    /\ ~catchAll /\ cli = "invoke" /\ steps = 3 /\ Len(messages) >= 3
    /\ messages[Len(messages)].type = "ai"
    /\ messages[Len(messages) - 1].type = "tool"
    /\ messages[Len(messages) - 1].content.lines = <<"invalid">>
    /\ messages[Len(messages) - 1].status = "error"

\* The list agent.invoke hands to the graph, and so to the first model call
\* of a turn, when main has the history h: the reducer's messages of h.
ModelInput(h) == Coerce(h)

\* The messages of msgs that say something: an assistant message with
\* neither text nor ToolCall is left out of the comparison.
Substantial(msgs) ==
    SelectSeq(msgs, LAMBDA m : ~(m.type = "ai" /\ ~Truthy(m.content) /\ m.tool_calls = <<>>))

\* C16: when a turn completes, the list main keeps for the model call of the
\* next turn is the complete ordered list of the session's messages so far,
\* that is the messages the turn returned: the user messages, the assistant
\* messages (those with empty text that carry ToolCalls too) and the
\* ToolResults.  The next turn passes that list followed by the new user
\* message.
C16_ModelInputIsHistory ==
    [][ (cli = "invoke" /\ node = "END" /\ printed' = "response") =>
            ModelInput(history') = Substantial(messages)
      ]_vars

\* The positions of the assistant entries of the history h.
AssistantAt(h) == {i \in 1..Len(h) : h[i].role = "assistant"}

\* C20: no assistant message of the model is in history twice, and
\* completing a turn appends exactly the assistant messages the model
\* produced in that turn, each once, after what was there.
C20_AppendedOnce ==
    /\ [](\A i, j \in AssistantAt(history) : history[i].content = history[j].content => i = j)
    /\ [][ (cli = "invoke" /\ node = "END" /\ printed' = "response") =>
              LET new == SubSeq(history', Len(history) + 1, Len(history'))
                  made == SelectSeq(messages, LAMBDA m :
                              m.type = "ai" /\ m.content.gen # <<>> /\ m.content.gen[1] = turns)
              IN /\ SubSeq(history', 1, Len(history)) = history
                 /\ new = [i \in 1..Len(made) |-> [role |-> "assistant", content |-> made[i].content]]
         ]_vars

----------------------------------------------------------------------------
\* Properties of run_tests.

\* C5: once run_tests has returned or raised, the temporary file it made
\* does not exist.
C5_TempFileRemoved ==
    (rtPc \in {"returned", "raised"} /\ tmp_path # 0) => tmp_path \notin files

\* C19 as stated: a call that returned reports PASSED exactly when the
\* runner's exit code is 0 and FAILED otherwise, and its result carries the
\* exit code and the runner's stdout followed by its stderr.
C19_ReportsRunnerOutput ==
    rtPc = "returned" =>
        /\ rtRun.ran
        /\ rtResult.status = "PASSED" <=> rtRun.returncode = 0
        /\ rtResult.status \in {"PASSED", "FAILED"}
        /\ rtResult.returncode = rtRun.returncode
        /\ rtResult.output = rtRun.stdout \o rtRun.stderr

\* C19 amended: a call that returned reports PASSED exactly when the
\* runner's exit code is 0 and FAILED otherwise, and its result carries the
\* exit code and the runner's stdout followed by its stderr without the
\* whitespace at the two ends of the whole.
C19_ReportsStrippedOutput ==
    rtPc = "returned" =>
        /\ rtRun.ran
        /\ rtResult.status = "PASSED" <=> rtRun.returncode = 0
        /\ rtResult.status \in {"PASSED", "FAILED"}
        /\ rtResult.returncode = rtRun.returncode
        /\ rtResult.output = Strip(rtRun.stdout \o rtRun.stderr)

\* C19 witness: the runner collected no test (exit code 5) and wrote to
\* both streams; the call reported FAILED with both outputs.
C19_Witness ==
    /\ rtPc = "returned" /\ rtRun.returncode = 5 /\ rtResult.status = "FAILED"
    /\ rtRun.stdout = <<"x">> /\ rtRun.stderr = <<" ", "x", " ">>
    /\ rtResult.output = <<"x", " ", "x">>

----------------------------------------------------------------------------
\* Properties of the index tool.

\* The chunks the running call has added to the collection.
NewChunks == SubSeq(chroma, Len(chromaAtCall) + 1, Len(chroma))

\* The status lines written so far (the lines after the header).
StatusLines == Tail(summary_lines)

\* C6: the search request asks for min(max_repos, 5) repositories, so for 5
\* when max_repos is 5 or more; the search returns, and the loop processes,
\* at most 5 repositories.
C6_RepoCap ==
    /\ per_page <= RepoCap
    /\ per_page # 0 => per_page = (IF max_repos >= RepoCap THEN RepoCap ELSE max_repos)
    /\ Len(repos) <= RepoCap
    /\ Len(repos) <= per_page
    /\ ixPc \in {"loop", "returned"} /\ searched = "ok" => Len(StatusLines) <= RepoCap

\* C6 witness: max_repos = 10 and more than 5 matches: 5 repositories were
\* returned and processed.
C6_Witness ==
    /\ max_repos = 10 /\ ixPc = "returned" /\ searched = "ok"
    /\ Len(repos) = RepoCap /\ Len(StatusLines) = RepoCap

\* C7: without a credential a call has returned the one error line that
\* names the credential, has sent no network request, and has left the
\* vector store global and the collection as they were.
C7_NoCredential ==
    (NoToken(token) /\ ixCalls > 0) =>
        /\ ixPc = "returned"
        /\ ixResult = <<ErrorLine>>
        /\ netCalls = 0 /\ per_page = 0
        /\ _vector_store = storeAtCall
        /\ chroma = chromaAtCall

\* C7 witness: a call without credential on a collection that holds chunks.
C7_Witness ==
    /\ NoToken(token) /\ ixCalls = 1 /\ ixPc = "returned"
    /\ chroma # <<>> /\ ixResult = <<ErrorLine>>

\* The chunks of the repositories with a success line among ls, in order.
RECURSIVE ChunksOfSuccesses(_)
ChunksOfSuccesses(ls) ==
    IF ls = <<>> THEN <<>>
    ELSE (IF Head(ls).kind = "success" THEN ChunksOf(Head(ls).repo) ELSE <<>>)
         \o ChunksOfSuccesses(Tail(ls))

\* C8: in the loop and after it, the i-th status line is a success or a
\* failure line for the i-th repository, whatever became of the ones before
\* it; the collection is what it was at the call followed by the chunks of
\* exactly the repositories with a success line; and the call returns only
\* with a status line for every repository.
C8_IndependentRepos ==
    (ixPc \in {"loop", "returned"} /\ searched = "ok") =>
        /\ Len(StatusLines) = ixI - 1
        /\ \A i \in 1..Len(StatusLines) :
              /\ StatusLines[i].repo = repos[i]
              /\ StatusLines[i].kind \in {"success", "failure"}
        /\ chroma = chromaAtCall \o ChunksOfSuccesses(StatusLines)
        /\ ixPc = "returned" => (Len(StatusLines) = Len(repos) /\ ixResult = summary_lines)

\* C8 witness: three repositories, the first fails to fetch, the other two
\* are indexed.
C8_Witness ==
    /\ ixPc = "returned" /\ searched = "ok" /\ Len(repos) = 3
    /\ StatusLines[1] = FailureLine(1, "fetch")
    /\ StatusLines[2].kind = "success" /\ StatusLines[3].kind = "success"
    /\ NewChunks = ChunksOf(2) \o ChunksOf(3)

\* C17: no step removes, moves or alters a chunk the collection holds; and a
\* repository that gets its success line has had all its chunks stored after
\* the ones that were there, whether or not the collection held chunks with
\* the same content already.
C17_AddKeepsChunks ==
    [][ /\ Len(chroma') >= Len(chroma)
        /\ SubSeq(chroma', 1, Len(chroma)) = chroma
        /\ (ixPc = "loop" /\ Len(summary_lines') > Len(summary_lines)
                /\ summary_lines'[Len(summary_lines')].kind = "success") =>
              chroma' = chroma \o ChunksOf(repos[ixI])
      ]_vars

\* C17 witness: the collection held the chunks of repository 1 from an
\* earlier run; indexing repositories 1 and 2 left them in place and stored
\* the second copy of repository 1 after them.
C17_Witness ==
    /\ ixPc = "returned" /\ chromaAtCall = ChunksOf(1)
    /\ chroma = ChunksOf(1) \o ChunksOf(1) \o ChunksOf(2)

\* C9: when the search step of the tool (tools.py) has failed (a fault, or no
\* result), the call has returned a one-line message and the collection is
\* as it was at the call.
C9_SearchFailureIsMessage ==
    (ixImpl = "tools" /\ searched \in {"fault", "empty"}) =>
        /\ ixPc = "returned"
        /\ Len(ixResult) = 1
        /\ chroma = chromaAtCall

----------------------------------------------------------------------------
\* Properties of the lazily made vector store.

\* C10: the vector store is constructed at most once, and every caller an
\* accessor has returned to holds the one instance.
C10_SingleConstruction ==
    /\ constructions <= 1
    /\ \A t \in Callers : accPc[t] = "done" => accGot[t] = 1

----------------------------------------------------------------------------
\* Properties of refactor.

\* C11: refactor leaves on a fault only when its model call faulted; when the
\* retrieval step is over the chain is given the code and the instructions
\* (when there are any); when the store could not be made or queried, or the
\* collection holds no chunk, the retrieved context and the context section
\* are empty; and a call that returned returned the model's output.
C11_RefactorWithoutIndex ==
    /\ rfPc = "raised" => rfModel = "fault"
    /\ rfRag # "" =>
        /\ rfPc \in {"chain", "returned", "raised"}
        /\ rfPrompt.code = code
        /\ rfPrompt.instructions_section =
              (IF instructions = "" THEN <<>> ELSE <<"Specific instructions:", instructions>>)
        /\ (rfRag \in {"init", "query"} \/ chroma = <<>>) =>
              (docs = <<>> /\ rfPrompt.context_section = <<>>)
    /\ rfPc = "returned" => (rfModel \in ModelOutputs /\ rfResult = rfModel)

\* C11 witness: the store could not be made, and refactor returned the
\* model's output for a call with instructions.
C11_Witness ==
    /\ rfPc = "returned" /\ rfRag = "init" /\ instructions # ""
    /\ rfPrompt.code = code /\ rfResult = "refactored"

----------------------------------------------------------------------------
\* Properties of lint and of format_code.

\* The outputs that are JSON lists of findings.
Findings == {"[F]", "[F,F]"}

\* C12: when the linter ran and its stdout is empty or is not a JSON list of
\* findings, lint has returned (it did not raise) and the list of violations
\* it returned is empty.
C12_UnparsableIsEmpty ==
    (lintPc \in {"returned", "raised"} /\ lintRun.ran /\ lintRun.stdout \notin Findings) =>
        (lintPc = "returned" /\ violations = <<>>)

\* C14: a formatter that ran and exited non-zero does not make format_code
\* raise, and of two calls that returned, one after a zero and one after a
\* non-zero exit, the results differ.
C14_ExitStatusVisible ==
    /\ (fmtRun.ran /\ fmtRun.returncode # 0) => fmtPc = "returned"
    /\ \A i, j \in 1..Len(fmtLog) :
          (fmtLog[i].returncode = 0 /\ fmtLog[j].returncode # 0) =>
              fmtLog[i].result # fmtLog[j].result

\* C15: a tool that waits for a process or for a service returns or raises
\* in the end, whether or not the other side ever answers.
C15_WaitsAreBounded ==
    \A site \in Sites : Waiting(site) ~> Ended(site)

----------------------------------------------------------------------------
\* Properties of retrieval.

\* The repositories the index call that returned reports as indexed.
Indexed == {ixResult[l].repo : l \in {l \in 1..Len(ixResult) : ixResult[l].kind = "success"}}

\* C18: when the index tool has returned and the retriever is then asked for
\* the k chunks most similar to a text, every file of a repository indexed
\* by that call of which the text is a chunk has a chunk among the chunks
\* returned.
C18_RoundTrip ==
    [][ (rfPc = "rag" /\ rfRag' = "ok" /\ ixPc = "returned") =>
            \A i \in 1..Len(chroma) :
                (chroma[i].repo \in Indexed /\ page_content(chroma[i]) = Prefix500(code)) =>
                    \E j \in 1..Len(docs') : FileOf(docs'[j]) = FileOf(chroma[i])
      ]_vars

----------------------------------------------------------------------------
\* C21: the session loop of main ends only when the user submits quit or
\* exit (in any letter case), when the input reaches end-of-file, or when the
\* user interrupts; input that consists only of blank lines never ends the
\* session, and an agent error during a turn never ends it.
C21_SessionEnds ==
    /\ [][ (cli # "exited" /\ cli' = "exited") =>
              \/ caught' \in {"EOFError", "KeyboardInterrupt"}
              \/ IsQuit(user_text') ]_vars
    /\ [][ (cli = "read" /\ caught' = "" /\ user_text' = <<>>) => cli' = "read" ]_vars
    /\ [][ (cli = "invoke" /\ printed' = "error") => cli' = "read" ]_vars

----------------------------------------------------------------------------
\* C22: when the search returns n >= 1 repositories, the summary that
\* index_repositories returns is one header line followed by exactly n status
\* lines, one per returned repository in the order the search returned them,
\* each the success line or a failure line of that repository.
StatusLineOf(line, r) ==
    \/ line = SuccessLine(r)
    \/ \E e \in RepoOutcomes \ {"ok"} : line = FailureLine(r, e)

C22_SummaryShape ==
    (ixPc = "returned" /\ searched = "ok" /\ Len(repos) >= 1) =>
        /\ Len(ixResult) = 1 + Len(repos)
        /\ ixResult[1] = HeaderLine
        /\ \A i \in 1..Len(repos) : StatusLineOf(ixResult[i + 1], repos[i])

\* A summary of three repositories is returned, the second of them failed
\* and the others indexed.
C22_Witness ==
    /\ ixPc = "returned" /\ searched = "ok" /\ Len(repos) = 3
    /\ ixResult[2].kind = "success"
    /\ ixResult[3].kind = "failure"
    /\ ixResult[4].kind = "success"
====
